---- MODULE Spec2Model ----
(***************************************************************************)
(* Model of the podcast-to-blog job pipeline: the upload handler and the   *)
(* background task process_audio of api.py, the generators of              *)
(* modules/content_generation.py and modules/generate_blog.py, and the     *)
(* transcription wrapper of modules/preprocessing.py.                      *)
(*                                                                         *)
(* process_audio is modelled one pipeline step per action.  The coroutine  *)
(* has no suspension point, so the real interleavings between two jobs are *)
(* a subset of the ones explored here.                                     *)
(***************************************************************************)
EXTENDS Integers, Sequences, FiniteSets, TLC

\* ------------------------------------------------------------------------
\* Bounds of the model
\* ------------------------------------------------------------------------

\* uploads accepted in a run of the concurrent scenario
MaxJobs == 2

\* longest transcript handed to a function called on its own
MaxLen == 4

\* ------------------------------------------------------------------------
\* Program constants
\* ------------------------------------------------------------------------

\* 1024 * 1024, the read size of the upload loop
chunk_size == 1048576

\* 20 * 1024 * 1024, the upload limit
size_limit == 20971520

\* the default of generate_blog's max_length
max_length == 10000

Kinds == {"blog", "seo", "faq", "social", "newsletter", "quotes"}

\* the kinds whose generator parses and validates JSON
StructuredKinds == {"seo", "faq", "social", "quotes"}

AllowedExtensions ==
    {<<"m", "p", "3">>, <<"w", "a", "v">>, <<"m", "4", "a">>, <<"o", "g", "g">>}

\* ------------------------------------------------------------------------
\* Texts returned by the generative model
\*
\* A text is described by what the generator that receives it can see:
\*   fence : the text holds a ```json ... ``` block around its body
\*   body  : "record"     JSON in the bracket shape the generator's pattern
\*                        expects ({..} or [..]) that satisfies its schema
\*           "wrongshape" JSON in that bracket shape that fails the schema
\*           "garbled"    bracketed text that is not JSON
\*           "otherjson"  JSON that does not open with that bracket
\*           "prose"      text that does not open with that bracket, not JSON
\*           "empty"      the empty string
\* ------------------------------------------------------------------------
Bodies == {"record", "wrongshape", "garbled", "otherjson", "prose", "empty"}

Texts == [fence : BOOLEAN, body : Bodies]

Plain(b) == [fence |-> FALSE, body |-> b]

Fenced(b) == [fence |-> TRUE, body |-> b]

\* blog_content = None
None == [fence |-> FALSE, body |-> "None"]

\* variant: only the empty string is false, None passes
Truthy_NoneIsTrue(t) == t # Plain("empty")

\* Python truthiness of a str-or-None value
Truthy(t) == t # None /\ t # Plain("empty")

\* variant: whatever stands between the fences is taken
json_match_anyfence(t) == t.fence

\* re.search(r'```json\s*(\{.*?\})\s*```', ...) and its [..] variant: the
\* pattern needs the fence and a body that opens and closes with the bracket
json_match(t) == t.fence /\ t.body \in {"record", "wrongshape", "garbled"}

\* the text handed to json.loads: group(1) of the match, else the whole text
Candidate(t) == IF json_match(t) THEN Plain(t.body) ELSE t

\* json.loads succeeds
json_loads_ok(t) == ~t.fence /\ t.body \in {"record", "wrongshape", "otherjson"}

\* the pydantic model accepts the parsed value
validates(t) == ~t.fence /\ t.body = "record"

\* ------------------------------------------------------------------------
\* Values returned by the generators and written by save_output
\*   form "rendered" : canonical rendering of a validated record (json of
\*                     model_dump, or the markdown built from the items)
\*        "error"    : dict with the keys "error" and "raw_response"
\*        "text"     : a text written as it is, or under a fixed heading
\*        "chars"    : the transcript
\*        "exception": no value, the generator raised `error`
\* ------------------------------------------------------------------------
Rendered(t) == [form |-> "rendered", error |-> "", text |-> t, chars |-> <<>>]

ErrorDict(msg, t) == [form |-> "error", error |-> msg, text |-> t, chars |-> <<>>]

TextOut(t) == [form |-> "text", error |-> "", text |-> t, chars |-> <<>>]

CharsOut(s) == [form |-> "chars", error |-> "", text |-> None, chars |-> s]

Exception(msg) == [form |-> "exception", error |-> msg, text |-> None, chars |-> <<>>]

\* ContentOutput.from_llm_response(response).content for a message object
\* or a str without metadata prefix: the content itself
from_llm_response(t) == t

\* variant: a JSONDecodeError is not caught
generate_seo_elements_uncaught(result) ==
    LET response_text == Candidate(result) IN
    IF ~json_loads_ok(response_text)
    THEN Exception("Expecting value")
    ELSE IF ~validates(response_text)
         THEN ErrorDict("validation error", response_text)
         ELSE Rendered(response_text)

generate_seo_elements(result) ==
    LET response_text == Candidate(result) IN
    IF ~json_loads_ok(response_text)
    THEN ErrorDict("Invalid JSON format", response_text)
    ELSE IF ~validates(response_text)
         THEN ErrorDict("validation error", response_text)
         ELSE Rendered(response_text)

generate_faq(result) ==
    LET content == Candidate(result) IN
    IF json_loads_ok(content) /\ validates(content)
    THEN Rendered(content)
    ELSE TextOut(from_llm_response(result))

generate_social_media(result) ==
    LET content == Candidate(result) IN
    IF json_loads_ok(content) /\ validates(content)
    THEN Rendered(content)
    ELSE TextOut(from_llm_response(result))

generate_newsletter(result) == TextOut(from_llm_response(result))

extract_quotes(result) ==
    LET content == Candidate(result) IN
    IF json_loads_ok(content) /\ validates(content)
    THEN Rendered(content)
    ELSE TextOut(from_llm_response(result))

\* variant: only the full slices are kept
chunks_full(transcript, n) ==
    [k \in 1..(Len(transcript) \div n) |->
        SubSeq(transcript, (k - 1) * n + 1, k * n)]

\* [transcript[i:i+n] for i in range(0, len(transcript), n)]
chunks(transcript, n) ==
    [k \in 1..((Len(transcript) + n - 1) \div n) |->
        SubSeq(transcript, (k - 1) * n + 1,
               IF k * n < Len(transcript) THEN k * n ELSE Len(transcript))]

\* summary["content"] on the message object chain.invoke returns: the
\* message class has no __getitem__
getitem_content(message) == Exception("'AIMessage' object is not subscriptable")

\* the loop of lines 38-44 over the chunks left, given what chain.invoke
\* does: the value it ends with and the calls of chain.invoke it makes
RECURSIVE summarize(_, _, _)
summarize(cs, summary, calls) ==
    IF cs = <<>>
    THEN [value |-> TextOut(summary.text), calls |-> calls]
    ELSE IF summary.raised
    THEN [value |-> Exception(summary.msg), calls |-> calls + 1]
    ELSE IF getitem_content(summary.text).form = "exception"
    THEN [value |-> getitem_content(summary.text), calls |-> calls + 1]
    ELSE summarize(Tail(cs), summary, calls + 1)

\* generate_blog(transcript, llm, max_length=n), given what chain.invoke
\* and agent_executor.invoke do: the value returned or the exception
\* raised, the number of chunk summaries asked for, and the chunks built
\* (none when the transcript is passed whole)
blog_run(transcript, n, summary, output) ==
    LET cs == IF Len(transcript) > n THEN chunks(transcript, n) ELSE <<>>
        summaries == IF Len(transcript) > n
                     THEN summarize(cs, summary, 0)
                     ELSE [value |-> TextOut(None), calls |-> 0]
    IN [value |-> IF summaries.value.form = "exception"
                  THEN summaries.value
                  ELSE IF output.raised
                  THEN Exception(output.msg)
                  ELSE TextOut(from_llm_response(output.text)),
        calls |-> summaries.calls,
        chunks |-> cs]

generate_blog(transcript, n, summary, output) ==
    blog_run(transcript, n, summary, output).value

Generate(kind, result) ==
    CASE kind = "seo" -> generate_seo_elements(result)
      [] kind = "faq" -> generate_faq(result)
      [] kind = "social" -> generate_social_media(result)
      [] kind = "newsletter" -> generate_newsletter(result)
      [] kind = "quotes" -> extract_quotes(result)

\* ------------------------------------------------------------------------
\* Transcript cleaning
\* ------------------------------------------------------------------------
\* variant: only the newline is handled, a carriage return stays
process_transcript_keep_cr(s) ==
    [i \in 1..Len(s) |-> IF s[i] = "\n" THEN " " ELSE s[i]]

\* variant: newline and carriage return are both taken out
process_transcript_drop(s) ==
    SelectSeq(s, LAMBDA c : c \notin {"\n", "\r"})

\* transcript.replace("\n", " ").replace("\r", "")
RECURSIVE process_transcript(_)
process_transcript(s) ==
    IF s = <<>> THEN <<>>
    ELSE LET c == Head(s) IN
         (IF c = "\n" THEN <<" ">> ELSE IF c = "\r" THEN <<>> ELSE <<c>>)
             \o process_transcript(Tail(s))

\* ------------------------------------------------------------------------
\* Upload validation
\* ------------------------------------------------------------------------
Min(a, b) == IF a < b THEN a ELSE b

\* the cased letters; a name or an extension is a sequence of characters
ascii_uppercase ==
    <<"A", "B", "C", "D", "E", "F", "G", "H", "I", "J", "K", "L", "M",
      "N", "O", "P", "Q", "R", "S", "T", "U", "V", "W", "X", "Y", "Z">>

ascii_lowercase ==
    <<"a", "b", "c", "d", "e", "f", "g", "h", "i", "j", "k", "l", "m",
      "n", "o", "p", "q", "r", "s", "t", "u", "v", "w", "x", "y", "z">>

\* the lowercase form of one character
lower_char(c) ==
    IF \E i \in DOMAIN ascii_uppercase : ascii_uppercase[i] = c
    THEN ascii_lowercase[CHOOSE i \in DOMAIN ascii_uppercase : ascii_uppercase[i] = c]
    ELSE c

\* the uppercase form of one character
upper_char(c) ==
    IF \E i \in DOMAIN ascii_lowercase : ascii_lowercase[i] = c
    THEN ascii_uppercase[CHOOSE i \in DOMAIN ascii_lowercase : ascii_lowercase[i] = c]
    ELSE c

\* str.lower()
lower(s) == [i \in 1..Len(s) |-> lower_char(s[i])]

\* the read loop of upload_audio: TRUE when the 20MB check fires
RECURSIVE read_loop(_, _)
read_loop(remaining, file_size) ==
    IF remaining = 0 THEN FALSE
    ELSE LET chunk == Min(remaining, chunk_size) IN
         IF file_size + chunk > size_limit THEN TRUE
         ELSE read_loop(remaining - chunk, file_size + chunk)

\* file.filename.lower().endswith(('.mp3', '.wav', '.m4a', '.ogg'))
allowed_type(filename) == lower(filename.ext) \in AllowedExtensions

\* ------------------------------------------------------------------------
\* Language mapping
\* ------------------------------------------------------------------------
english == <<"e", "n", "g", "l", "i", "s", "h">>

french == <<"f", "r", "e", "n", "c", "h">>

spanish == <<"s", "p", "a", "n", "i", "s", "h">>

hindi == <<"h", "i", "n", "d", "i">>

german == <<"g", "e", "r", "m", "a", "n">>

italian == <<"i", "t", "a", "l", "i", "a", "n">>

language_map ==
    [l \in {english, french, spanish, hindi, german, italian} |->
        CASE l = english -> "en"
          [] l = french -> "fr"
          [] l = spanish -> "es"
          [] l = hindi -> "hi"
          [] l = german -> "de"
          [] l = italian -> "it"]

\* variant: the name is looked up as written
map_language_code_cased(language) ==
    IF language \in DOMAIN language_map
    THEN language_map[language]
    ELSE "None"

\* "None" stands for the missing mapping
map_language_code(language) ==
    IF lower(language) \in DOMAIN language_map
    THEN language_map[lower(language)]
    ELSE "None"

\* ------------------------------------------------------------------------
\* Files
\* ------------------------------------------------------------------------

\* os.path.join(TEMP_DIR, f"{job_id}_{file.filename}")
TempPath(job_id, filename) == [job |-> job_id, filename |-> filename]

\* os.path.splitext(os.path.basename(file_path))[0], as its parts
\* joined by "_"
base_filename(file_path) == <<file_path.job, file_path.filename.stem>>

\* variant: the run prefix is a timestamp (0) and the upload name, as the
\* command line pipeline builds it
output_base_timestamp(job_id, file_path) == <<0, file_path.filename.stem>>

\* f"{job_id}_{base_filename}"
output_base(job_id, file_path) == <<job_id>> \o base_filename(file_path)

\* f"{filename}.{format}" for filename = f"{output_base}_{kind}"
FileName(base, kind, format) == [parts |-> base \o <<kind>>, ext |-> format]

\* d[k] = v on a dict
SetItem(d, k, v) == [x \in DOMAIN d \cup {k} |-> IF x = k THEN v ELSE d[x]]

\* the effect of save_output on the output directory: open(filepath, "w")
\* creates or truncates the file
save_output(dir, content, name) == SetItem(dir, name, content)

\* format argument process_audio passes to save_output
FormatOf(kind) == IF kind = "seo" THEN "json" ELSE "md"

\* ------------------------------------------------------------------------
\* Outcomes of a call to an external service
\* ------------------------------------------------------------------------
Returned(t) == [raised |-> FALSE, msg |-> "", text |-> t, chars |-> <<>>]

Raises(m) == [raised |-> TRUE, msg |-> m, text |-> None, chars |-> <<>>]

\* the transcription service returns the text s
Heard(s) == [raised |-> FALSE, msg |-> "", text |-> None, chars |-> s]

\* messages of the exceptions the transcription client raises
TranscriptionErrors == {"Connection error."}

\* messages of the exceptions the generative model client raises
GenerationErrors == {"Rate limit reached"}

\* ------------------------------------------------------------------------
\* Job records
\* ------------------------------------------------------------------------
NoFiles == [k \in {} |-> FileName(<<>>, "", "")]

ProcessingRecord(filename) ==
    [status |-> "processing", filename |-> filename, files |-> NoFiles,
     error |-> "", keys |-> {"status", "filename"}]

NoFilename == [stem |-> "", ext |-> <<>>]

\* variant: the record is marked completed without its files map
CompletedRecord_bare(output_files) ==
    [status |-> "completed", filename |-> NoFilename, files |-> NoFiles,
     error |-> "", keys |-> {"status"}]

CompletedRecord(output_files) ==
    [status |-> "completed", filename |-> NoFilename, files |-> output_files,
     error |-> "", keys |-> {"status", "files"}]

\* variant: the record carries a fixed text, not the exception's message
FailedRecord_generic(msg) ==
    [status |-> "failed", filename |-> NoFilename, files |-> NoFiles,
     error |-> "Processing failed", keys |-> {"status", "error"}]

FailedRecord(msg) ==
    [status |-> "failed", filename |-> NoFilename, files |-> NoFiles,
     error |-> msg, keys |-> {"status", "error"}]

\* ------------------------------------------------------------------------
\* State
\* ------------------------------------------------------------------------
VARIABLES
    scenario,      \* which environment the run has: "single", "many", "fair"
                   \* or "calls"
    job_status,    \* api.job_status: job id -> record
    task,          \* the process_audio task of each job: position and locals
    temp_dir,      \* files in TEMP_DIR
    output_dir,    \* files in OUTPUT_DIR: name -> content
    last_reply,    \* the last response of upload_audio
    fn,            \* the function last called on its own, "" if none
    arg,           \* the arguments of that call
    ret            \* what the call returned

vars == <<scenario, job_status, task, temp_dir, output_dir, last_reply, fn, arg, ret>>

\* the record of a direct call
call == <<fn, arg, ret>>

NoExc == [at |-> "", msg |-> ""]

NoResults == [k \in {} |-> Returned(None)]

NoReply == [code |-> 0, job_id |-> 0, error |-> ""]

\* calls of an external service made so far for each step of a task
NoInvocations == [k \in Kinds \cup {"transcript"} |-> 0]

\* what a task has handed to the generators it ran
NoGiven == [k \in {} |-> TextOut(None)]

\* variant: only the head of the list is looked at
In_first(x, content_types) == content_types # <<>> /\ content_types[1] = x

\* x in content_types, on a list
In(x, content_types) == \E i \in DOMAIN content_types : content_types[i] = x

JobIds == DOMAIN job_status

\* the kinds in the order of the form's default
KindOrder == <<"blog", "seo", "faq", "social", "newsletter", "quotes">>

\* a request that names the kinds of S once each
Listing(S) == SelectSeq(KindOrder, LAMBDA k : k \in S)

\* requests out of order, with a kind twice, with a kind the pipeline does
\* not know
OddRequests ==
    {<<"quotes", "video", "blog", "quotes", "seo">>, <<"video">>}

\* one job against every kind of model answer
SingleJob ==
    [uploads |-> 1,
     filenames |-> [stem : {"ep1"}, ext : {<<"M", "P", "3">>, <<"t", "x", "t">>}],
     sizes |-> {1, size_limit, size_limit + 1},
     requests |-> {Listing(S) : S \in SUBSET Kinds} \cup OddRequests,
     transcripts |-> {<<"h", "\n", "i", "\r">>},
     texts |-> [fence : BOOLEAN, body : {"record", "wrongshape", "garbled", "prose"}],
     outputs |-> {Plain("prose"), Plain("empty")}]

\* several jobs against a model stub with one answer
ManyJobs ==
    [uploads |-> MaxJobs,
     filenames |-> [stem : {"ep1", "ep2"}, ext : {<<"m", "p", "3">>}],
     sizes |-> {1},
     requests |-> {Listing(Kinds), <<"blog", "faq">>},
     transcripts |-> {<<"h", "\n", "i", "\r">>},
     texts |-> {Plain("record")},
     outputs |-> {Plain("prose")}]

\* several jobs that upload the same file name
FairJobs == [ManyJobs EXCEPT !.filenames = [stem : {"ep1"}, ext : {<<"m", "p", "3">>}]]

\* no upload arrives: the functions are called on their own
NoJobs ==
    [uploads |-> 0, filenames |-> {}, sizes |-> {}, requests |-> {},
     transcripts |-> {<<"h", "\n", "i", "\r">>}, texts |-> {}, outputs |-> {}]

\* the scenario of the run
Scenario ==
    CASE scenario = "single" -> SingleJob
      [] scenario = "many" -> ManyJobs
      [] scenario = "fair" -> FairJobs
      [] OTHER -> NoJobs

InitWith(s) ==
    /\ scenario = s
    /\ job_status = [j \in {} |-> FailedRecord("")]
    /\ task = [j \in {} |-> 0]
    /\ temp_dir = {}
    /\ output_dir = [n \in {} |-> CharsOut(<<>>)]
    /\ last_reply = NoReply
    /\ fn = ""
    /\ arg = <<>>
    /\ ret = <<>>

Init == InitWith("single")

InitJobs == InitWith("many")

\* ------------------------------------------------------------------------
\* The command line program
\* ------------------------------------------------------------------------

\* the conditions of the blocks of main(): seo, social and newsletter ask
\* for "blog" in content_types
main_selected(kind, content_types) ==
    IF kind \in {"seo", "social", "newsletter"}
    THEN In(kind, content_types) /\ In("blog", content_types)
    ELSE In(kind, content_types)

\* the blocks of main() in their order; `raised` holds the steps whose
\* service call raises, which ends the program in the except clause
RECURSIVE main_blocks(_, _, _, _)
main_blocks(order, content_types, raised, run) ==
    IF order = <<>> THEN run
    ELSE LET kind == Head(order) IN
         IF ~main_selected(kind, content_types)
         THEN main_blocks(Tail(order), content_types, raised, run)
         ELSE IF kind \in raised
         THEN [invoked |-> Append(run.invoked, kind), saved |-> run.saved]
         ELSE main_blocks(Tail(order), content_types, raised,
                          [invoked |-> Append(run.invoked, kind),
                           saved |-> run.saved \cup {kind}])

\* main(): the generators it invokes, in order, and the kinds it saves
main(content_types, raised) ==
    IF "transcript" \in raised
    THEN [invoked |-> <<>>, saved |-> {}]
    ELSE main_blocks(KindOrder, content_types, raised,
                     [invoked |-> <<>>, saved |-> {"transcript"}])

\* ------------------------------------------------------------------------
\* POST /api/upload
\* ------------------------------------------------------------------------
NewTask(file_path, content_types) ==
    [pc |-> "start", file_path |-> file_path, content_types |-> content_types,
     output_files |-> NoFiles, cleaned_transcript |-> <<>>,
     blog_content |-> None, result |-> NoResults, exc |-> NoExc,
     invocations |-> NoInvocations, given |-> NoGiven]

\* variant: the id is not fresh, an id already in the store comes again
uuid4_reused == IF JobIds = {} THEN Cardinality(JobIds) + 1 ELSE CHOOSE j \in JobIds : TRUE

\* str(uuid.uuid4()): an id no earlier job has
uuid4 == Cardinality(JobIds) + 1

\* the guards of lines 287-306: the error of the 400 response, "" if none
upload_error(size, filename) ==
    IF read_loop(size, 0) THEN "File size exceeds the 20MB limit"
    ELSE IF ~allowed_type(filename)
    THEN "Only audio files (.mp3, .wav, .m4a, .ogg) are supported"
    ELSE ""

\* variant: the record is left for the task to create, the handler only
\* stores the file and schedules the task
upload_audio_late(size, filename, content_types) ==
    IF upload_error(size, filename) # ""
    THEN /\ last_reply' = [code |-> 400, job_id |-> 0,
                           error |-> upload_error(size, filename)]
         /\ UNCHANGED <<call, scenario, job_status, task, temp_dir, output_dir>>
    ELSE LET job_id == Cardinality(DOMAIN task) + 1
             temp_file_path == TempPath(job_id, filename)
         IN /\ temp_dir' = temp_dir \cup {temp_file_path}
            /\ task' = SetItem(task, job_id, NewTask(temp_file_path, content_types))
            /\ last_reply' = [code |-> 200, job_id |-> job_id, error |-> ""]
            /\ UNCHANGED <<call, scenario, job_status, output_dir>>

\* variant: the record is written as the request arrives, ahead of the
\* guards
upload_audio_recorded(size, filename, content_types) ==
    IF upload_error(size, filename) # ""
    THEN /\ job_status' = SetItem(job_status, uuid4, ProcessingRecord(filename))
         /\ last_reply' = [code |-> 400, job_id |-> 0,
                           error |-> upload_error(size, filename)]
         /\ UNCHANGED <<call, scenario, task, temp_dir, output_dir>>
    ELSE LET job_id == uuid4
             temp_file_path == TempPath(job_id, filename)
         IN /\ temp_dir' = temp_dir \cup {temp_file_path}
            /\ job_status' = SetItem(job_status, job_id, ProcessingRecord(filename))
            /\ task' = SetItem(task, job_id, NewTask(temp_file_path, content_types))
            /\ last_reply' = [code |-> 200, job_id |-> job_id, error |-> ""]
            /\ UNCHANGED <<call, scenario, output_dir>>

upload_audio(size, filename, content_types) ==
    IF upload_error(size, filename) # ""
    THEN /\ last_reply' = [code |-> 400, job_id |-> 0,
                           error |-> upload_error(size, filename)]
         /\ UNCHANGED <<call, scenario, job_status, task, temp_dir, output_dir>>
    ELSE LET job_id == uuid4
             temp_file_path == TempPath(job_id, filename)
         IN /\ temp_dir' = temp_dir \cup {temp_file_path}
            /\ job_status' = SetItem(job_status, job_id, ProcessingRecord(filename))
            /\ task' = SetItem(task, job_id, NewTask(temp_file_path, content_types))
            /\ last_reply' = [code |-> 200, job_id |-> job_id, error |-> ""]
            /\ UNCHANGED <<call, scenario, output_dir>>

\* a request arrives; the run accepts Scenario.uploads of them
Upload ==
    \E size \in Scenario.sizes, filename \in Scenario.filenames :
        IF upload_error(size, filename) # ""
        THEN upload_audio(size, filename, <<>>)
        ELSE /\ Cardinality(JobIds) < Scenario.uploads
             /\ \E content_types \in Scenario.requests :
                    upload_audio(size, filename, content_types)

\* ------------------------------------------------------------------------
\* GET /api/status/{job_id}
\* ------------------------------------------------------------------------
get_job_status(job_id) ==
    IF job_id \notin DOMAIN job_status
    THEN [code |-> 404, body |-> FailedRecord("Job not found")]
    ELSE [code |-> 200, body |-> job_status[job_id]]

\* ------------------------------------------------------------------------
\* process_audio
\* ------------------------------------------------------------------------

\* file_path = None or ""
NoPath == [job |-> 0, filename |-> NoFilename]

\* lines 150-171 of load_transcript: TRUE when the call gets as far as
\* client.audio.transcriptions.create
reaches_create(files, file_path, language) ==
    /\ file_path # NoPath
    /\ file_path \in files
    /\ language # <<>> => map_language_code(language) # "None"

\* variant: the path is not looked at, the service is asked first
load_transcript_nocheck(files, file_path, language, service) ==
    IF service.raised
    THEN Raises(service.msg)
    ELSE IF language # <<>> /\ map_language_code(language) = "None"
    THEN Raises("Unsupported language")
    ELSE Heard(process_transcript(service.chars))

\* variant: a service error is swallowed and an empty transcript returned
load_transcript_swallow(files, file_path, language, service) ==
    IF file_path = NoPath \/ file_path \notin files
    THEN Raises("Audio file not found at path")
    ELSE IF language # <<>> /\ map_language_code(language) = "None"
    THEN Raises("Unsupported language")
    ELSE IF service.raised
    THEN Heard(<<>>)
    ELSE Heard(process_transcript(service.chars))

\* load_transcript(file_path=..., language=...), given what the
\* transcription service does when it is called
load_transcript(files, file_path, language, service) ==
    IF file_path = NoPath \/ file_path \notin files
    THEN Raises("Audio file not found at path")
    ELSE IF language # <<>> /\ map_language_code(language) = "None"
    THEN Raises("Unsupported language")
    ELSE IF service.raised
    THEN Raises(service.msg)
    ELSE Heard(process_transcript(service.chars))

\* what client.audio.transcriptions.create may do
TranscriptionOutcomes ==
    {Raises(m) : m \in TranscriptionErrors}
    \cup {Heard(s) : s \in Scenario.transcripts}

\* what chain.invoke / agent_executor.invoke may do for a kind
GenerationOutcomes(kind) ==
    {Raises(m) : m \in GenerationErrors}
    \cup {Returned(t) : t \in IF kind \in StructuredKinds
                              THEN Scenario.texts ELSE Scenario.outputs}

\* variant: the except clause writes through a module-level "current job"
\* that names the first job of the store
Fail_first(j, at, outcome, msg) ==
    /\ job_status' = SetItem(job_status, CHOOSE b \in JobIds : TRUE, FailedRecord(msg))
    /\ task' = [task EXCEPT ![j].pc = "exit",
                            ![j].result = SetItem(@, at, outcome),
                            ![j].invocations[at] = @ + 1,
                            ![j].exc = [at |-> at, msg |-> msg]]
    /\ UNCHANGED <<call, scenario, temp_dir, output_dir, last_reply>>

\* the except clause of process_audio, entered from step `at` after the
\* service call of that step had the given outcome
Fail(j, at, outcome, msg) ==
    /\ job_status' = SetItem(job_status, j, FailedRecord(msg))
    /\ task' = [task EXCEPT ![j].pc = "exit",
                            ![j].result = SetItem(@, at, outcome),
                            ![j].invocations[at] = @ + 1,
                            ![j].exc = [at |-> at, msg |-> msg]]
    /\ UNCHANGED <<call, scenario, temp_dir, output_dir, last_reply>>

\* the except clause entered from step `at` before the service of that
\* step was called
Abort(j, at, msg) ==
    /\ job_status' = SetItem(job_status, j, FailedRecord(msg))
    /\ task' = [task EXCEPT ![j].pc = "exit",
                            ![j].exc = [at |-> at, msg |-> msg]]
    /\ UNCHANGED <<call, scenario, temp_dir, output_dir, last_reply>>

\* a step whose condition is false
Skip(j, next) ==
    /\ task' = [task EXCEPT ![j].pc = next]
    /\ UNCHANGED <<call, scenario, job_status, temp_dir, output_dir, last_reply>>

\* the environment: the uploaded copy is removed from TEMP_DIR before the
\* task opens it (the task looks at the file at line 150 only)
TempFileRemoved(j) ==
    /\ task[j].pc = "start"
    /\ task[j].file_path \in temp_dir
    /\ temp_dir' = temp_dir \ {task[j].file_path}
    /\ UNCHANGED <<call, scenario, job_status, task, output_dir, last_reply>>

\* lines 139-158: transcribe, clean, save the transcript
Transcribe(j) ==
    /\ task[j].pc = "start"
    /\ \E service \in TranscriptionOutcomes :
        LET transcript == load_transcript(temp_dir, task[j].file_path,
                                          english, service)
            cleaned_transcript == process_transcript(transcript.chars)
            name == FileName(output_base(j, task[j].file_path), "transcript", "md")
        IN IF ~reaches_create(temp_dir, task[j].file_path, english)
           THEN Abort(j, "transcript", transcript.msg)
           ELSE IF transcript.raised
           THEN Fail(j, "transcript", service, transcript.msg)
           ELSE /\ output_dir' = save_output(output_dir, CharsOut(cleaned_transcript), name)
                /\ task' = [task EXCEPT ![j].pc = "blog",
                                        ![j].cleaned_transcript = cleaned_transcript,
                                        ![j].result = SetItem(@, "transcript", service),
                                        ![j].invocations["transcript"] = @ + 1,
                                        ![j].output_files = SetItem(@, "transcript", name)]
                /\ UNCHANGED <<call, scenario, job_status, temp_dir, last_reply>>

\* lines 160-166
BlogStep(j) ==
    /\ task[j].pc = "blog"
    /\ IF In("blog", task[j].content_types)
       THEN \E outcome \in GenerationOutcomes("blog") :
            LET name == FileName(output_base(j, task[j].file_path), "blog", "md")
                value == generate_blog(task[j].cleaned_transcript, max_length,
                                       outcome, outcome)
                blog_content == value.text
            IN IF value.form = "exception"
               THEN Fail(j, "blog", outcome, value.error)
               ELSE /\ output_dir' = save_output(output_dir, TextOut(blog_content), name)
                    /\ task' = [task EXCEPT ![j].pc = "seo",
                                            ![j].blog_content = blog_content,
                                            ![j].result = SetItem(@, "blog", outcome),
                                            ![j].invocations["blog"] = @ + 1,
                                            ![j].output_files = SetItem(@, "blog", name)]
                    /\ UNCHANGED <<call, scenario, job_status, temp_dir, last_reply>>
       ELSE Skip(j, "seo")

\* variant: every generator is handed the transcript
InputOf_transcript(j, kind) == CharsOut(task[j].cleaned_transcript)

\* the second argument of the generator call of a block: blog_content for
\* seo, social and newsletter, cleaned_transcript for faq and quotes
InputOf(j, kind) ==
    IF kind \in {"seo", "social", "newsletter"}
    THEN TextOut(task[j].blog_content)
    ELSE CharsOut(task[j].cleaned_transcript)

\* variant: a structured generator whose first answer does not validate
\* asks the model a second time
RunGenerator_retry(j, kind, next) ==
    \E first \in GenerationOutcomes(kind), second \in GenerationOutcomes(kind) :
        LET retried == /\ ~first.raised
                       /\ kind \in StructuredKinds
                       /\ Generate(kind, first.text).form # "rendered"
            outcome == IF retried THEN second ELSE first
            name == FileName(output_base(j, task[j].file_path), kind, FormatOf(kind))
            value == Generate(kind, outcome.text)
        IN IF outcome.raised
           THEN Fail(j, kind, outcome, outcome.msg)
           ELSE /\ output_dir' = save_output(output_dir, value, name)
                /\ task' = [task EXCEPT ![j].pc = next,
                                        ![j].result = SetItem(@, kind, outcome),
                                        ![j].invocations[kind] = @ + (IF retried THEN 2 ELSE 1),
                                        ![j].given = SetItem(@, kind, InputOf(j, kind)),
                                        ![j].output_files = SetItem(@, kind, name)]
                /\ UNCHANGED <<call, scenario, job_status, temp_dir, last_reply>>

\* one of the blocks of lines 168-197: call the generator, save its value,
\* record the file
RunGenerator(j, kind, next) ==
    \E outcome \in GenerationOutcomes(kind) :
        LET name == FileName(output_base(j, task[j].file_path), kind, FormatOf(kind))
            value == Generate(kind, outcome.text)
        IN IF outcome.raised
           THEN Fail(j, kind, outcome, outcome.msg)
           ELSE IF value.form = "exception"
           THEN Fail(j, kind, outcome, value.error)
           ELSE /\ output_dir' = save_output(output_dir, value, name)
                /\ task' = [task EXCEPT ![j].pc = next,
                                        ![j].result = SetItem(@, kind, outcome),
                                        ![j].invocations[kind] = @ + 1,
                                        ![j].given = SetItem(@, kind, InputOf(j, kind)),
                                        ![j].output_files = SetItem(@, kind, name)]
                /\ UNCHANGED <<call, scenario, job_status, temp_dir, last_reply>>

\* lines 169-173
SeoStep(j) ==
    /\ task[j].pc = "seo"
    /\ IF In("seo", task[j].content_types) /\ Truthy(task[j].blog_content)
       THEN RunGenerator(j, "seo", "faq")
       ELSE Skip(j, "faq")

\* lines 175-179
FaqStep(j) ==
    /\ task[j].pc = "faq"
    /\ IF In("faq", task[j].content_types)
       THEN RunGenerator(j, "faq", "social")
       ELSE Skip(j, "social")

\* lines 181-185
SocialStep(j) ==
    /\ task[j].pc = "social"
    /\ IF In("social", task[j].content_types) /\ Truthy(task[j].blog_content)
       THEN RunGenerator(j, "social", "newsletter")
       ELSE Skip(j, "newsletter")

\* lines 187-191
NewsletterStep(j) ==
    /\ task[j].pc = "newsletter"
    /\ IF In("newsletter", task[j].content_types) /\ Truthy(task[j].blog_content)
       THEN RunGenerator(j, "newsletter", "quotes")
       ELSE Skip(j, "quotes")

\* lines 193-197
QuotesStep(j) ==
    /\ task[j].pc = "quotes"
    /\ IF In("quotes", task[j].content_types)
       THEN RunGenerator(j, "quotes", "finish")
       ELSE Skip(j, "finish")

\* variant: the task ends without the completed write
Complete_unrecorded(j) ==
    /\ task[j].pc = "finish"
    /\ task' = [task EXCEPT ![j].pc = "exit"]
    /\ UNCHANGED <<call, scenario, job_status, temp_dir, output_dir, last_reply>>

\* variant: the record is set to completed before the quotes block
Complete_early(j) ==
    /\ task[j].pc = "quotes"
    /\ job_status[j].status = "processing"
    /\ job_status' = SetItem(job_status, j, CompletedRecord(task[j].output_files))
    /\ UNCHANGED <<call, scenario, task, temp_dir, output_dir, last_reply>>

\* lines 199-205
Complete(j) ==
    /\ task[j].pc = "finish"
    /\ job_status' = SetItem(job_status, j, CompletedRecord(task[j].output_files))
    /\ task' = [task EXCEPT ![j].pc = "exit"]
    /\ UNCHANGED <<call, scenario, temp_dir, output_dir, last_reply>>

Next ==
    \/ Upload
    \/ \E j \in JobIds : TempFileRemoved(j)
    \/ \E j \in JobIds : Transcribe(j)
    \/ \E j \in JobIds : BlogStep(j)
    \/ \E j \in JobIds : SeoStep(j)
    \/ \E j \in JobIds : FaqStep(j)
    \/ \E j \in JobIds : SocialStep(j)
    \/ \E j \in JobIds : NewsletterStep(j)
    \/ \E j \in JobIds : QuotesStep(j)
    \/ \E j \in JobIds : Complete(j)

Spec == Init /\ [][Next]_vars

SpecJobs == InitJobs /\ [][Next]_vars

\* a step of the background task of job j
process_audio(j) ==
    /\ j \in JobIds
    /\ \/ Transcribe(j)
       \/ BlogStep(j)
       \/ SeoStep(j)
       \/ FaqStep(j)
       \/ SocialStep(j)
       \/ NewsletterStep(j)
       \/ QuotesStep(j)
       \/ Complete(j)

\* the event loop runs every task that add_task has scheduled, and a task
\* that has started goes on as long as its external calls return or raise
Fairness == \A j \in 1..MaxJobs : WF_vars(process_audio(j))

InitFair == InitWith("fair")

SpecJobsFair == InitFair /\ [][Next]_vars /\ Fairness

\* ------------------------------------------------------------------------
\* The functions called on their own
\* ------------------------------------------------------------------------

\* the characters of a transcript: a letter, a space, the two line ends
Alphabet == {"a", " ", "\n", "\r"}

Transcripts == UNION {[1..n -> Alphabet] : n \in 0..MaxLen}

\* the functions keep nothing between two calls, so a run makes one call
Idle == scenario = "calls" /\ fn = ""

\* f(a) is called and returns r
Call(f, a, r) ==
    /\ fn' = f
    /\ arg' = a
    /\ ret' = r
    /\ UNCHANGED <<scenario, job_status, task, temp_dir, output_dir, last_reply>>

CallProcessTranscript ==
    /\ Idle
    /\ \E transcript \in Transcripts :
        Call("process_transcript", <<transcript>>, process_transcript(transcript))

\* a name in every letter case
CaseVariants(name) ==
    {[i \in 1..Len(name) |-> IF i \in up THEN upper_char(name[i]) ELSE name[i]] :
        up \in SUBSET (1..Len(name))}

\* names no entry of the table matches
OtherLanguages ==
    {<<"e", "n">>, <<"d", "u", "t", "c", "h">>, <<"h", "i", "n", "d", "i", " ">>}

\* the language argument: a supported name in some case, another name, or
\* none (<<>> stands for None and for "")
Languages ==
    UNION {CaseVariants(name) : name \in DOMAIN language_map}
    \cup OtherLanguages \cup {<<>>}

CallMapLanguageCode ==
    /\ Idle
    /\ \E language \in Languages \ {<<>>} :
        Call("map_language_code", <<language>>, map_language_code(language))

\* upload sizes around one read of the loop and around the limit
UploadSizes ==
    {0, 1, chunk_size, chunk_size + 1, size_limit - 1, size_limit,
     size_limit + 1, size_limit + chunk_size}

\* file names: an allowed ending in every letter case, other endings, none
UploadNames ==
    [stem : {"ep1"},
     ext : UNION {CaseVariants(e) : e \in AllowedExtensions}
           \cup {<<"t", "x", "t">>, <<"m", "p">>, <<"m", "p", "3", "x">>, <<>>}]

\* the guards of upload_audio on one request
CallUploadError ==
    /\ Idle
    /\ \E size \in UploadSizes, filename \in UploadNames :
        Call("upload_error", [size |-> size, filename |-> filename],
             upload_error(size, filename))

\* an uploaded copy that load_transcript may be pointed at
SomePath == TempPath(1, [stem |-> "ep1", ext |-> <<"m", "p", "3">>])

\* the call returns or raises `value`; create_calls counts the calls of
\* client.audio.transcriptions.create it made
CallLoadTranscript ==
    /\ Idle
    /\ \E files \in {{}, {SomePath}}, file_path \in {NoPath, SomePath},
          language \in Languages, service \in TranscriptionOutcomes :
        Call("load_transcript",
             [files |-> files, file_path |-> file_path,
              language |-> language, service |-> service],
             [value |-> load_transcript(files, file_path, language, service),
              create_calls |-> IF reaches_create(files, file_path, language)
                               THEN 1 ELSE 0])

\* the bracket the pattern of a generator asks for
Bracket(kind) == IF kind \in {"seo", "social"} THEN "{" ELSE "["

\* a raw answer of the model: with or without a ```json fence, a body that
\* opens with "{", with "[" or with neither, and that is JSON satisfying
\* the schema of its bracket ("valid"), other JSON ("json") or no JSON
\* ("text")
RawTexts == [fence : BOOLEAN, open : {"{", "[", ""}, content : {"valid", "json", "text"}]

\* the raw answer as the generator of `kind` sees it
Seen(kind, raw) ==
    [fence |-> raw.fence,
     body |-> IF raw.open = Bracket(kind)
              THEN CASE raw.content = "valid" -> "record"
                     [] raw.content = "json" -> "wrongshape"
                     [] OTHER -> "garbled"
              ELSE IF raw.content = "text" THEN "prose" ELSE "otherjson"]

\* the extraction step of a structured generator
CallCandidate ==
    /\ Idle
    /\ \E kind \in StructuredKinds, raw \in RawTexts :
        Call("candidate", [kind |-> kind, raw |-> raw], Candidate(Seen(kind, raw)))

\* what the model may do on a direct call of generate_blog
BlogOutcomes ==
    {Raises(m) : m \in GenerationErrors}
    \cup {Returned(Plain("prose")), Returned(Plain("empty"))}

CallGenerateBlog ==
    /\ Idle
    /\ \E transcript \in Transcripts, n \in 1..3,
          summary \in BlogOutcomes, output \in BlogOutcomes :
        Call("generate_blog",
             [transcript |-> transcript, max_length |-> n,
              summary |-> summary, output |-> output],
             blog_run(transcript, n, summary, output))

\* chunk_transcript(transcript, max_length) of generate.py and the lines
\* after it, which go on with the first chunk when there are several
CallChunkTranscript ==
    /\ Idle
    /\ \E transcript \in Transcripts, n \in 1..3 :
        LET transcript_chunks == chunks(transcript, n) IN
        Call("chunk_transcript", [transcript |-> transcript, max_length |-> n],
             [chunks |-> transcript_chunks,
              transcript |-> IF Len(transcript_chunks) > 1
                             THEN transcript_chunks[1] ELSE transcript])

\* ------------------------------------------------------------------------
\* JSON values, the seo schema, json.dump and json.loads
\*
\* A parsed JSON value is a string (its characters), a number, null or a
\* list of such values; a parsed object is a function from keys to values.
\* A JSON text is a sequence of tokens: punctuation, keys, and strings with
\* the characters that stand between their quotes.
\* ------------------------------------------------------------------------
JStr(s) == [type |-> "str", chars |-> s, items |-> <<>>]

JNum == [type |-> "num", chars |-> <<"7">>, items |-> <<>>]

JNull == [type |-> "null", chars |-> <<>>, items |-> <<>>]

JList(xs) == [type |-> "list", chars |-> <<>>, items |-> xs]

NoDict == [k \in {} |-> JNull]

\* the fields of SeoElements in the order of the class
SeoFields == <<"title", "meta_description", "tags", "keywords">>

Punct(p) == [kind |-> "punct", text |-> p, chars |-> <<>>]

Key(k) == [kind |-> "key", text |-> k, chars |-> <<>>]

\* variant: the characters are written as they are
encode_basestring_quotes(s) ==
    IF s = <<>> THEN <<>>
    ELSE [i \in 1..Len(s) |-> s[i]]

\* json.dump of a str with ensure_ascii: the characters between the quotes
RECURSIVE encode_basestring(_)
encode_basestring(s) ==
    IF s = <<>> THEN <<>>
    ELSE LET c == Head(s) IN
         (CASE c = "\"" -> <<"\\", "\"">>
            [] c = "\\" -> <<"\\", "\\">>
            [] c = "\n" -> <<"\\", "n">>
            [] c = "U+00E9" -> <<"\\", "u", "0", "0", "e", "9">>
            [] OTHER -> <<c>>) \o encode_basestring(Tail(s))

\* json.loads of the characters between the quotes of a string
RECURSIVE scanstring(_)
scanstring(e) ==
    IF e = <<>> THEN <<>>
    ELSE IF Head(e) # "\\" THEN <<Head(e)>> \o scanstring(Tail(e))
    ELSE IF e[2] = "u"
    THEN <<IF SubSeq(e, 3, 6) = <<"0", "0", "e", "9">> THEN "U+00E9" ELSE "U+FFFD">>
             \o scanstring(SubSeq(e, 7, Len(e)))
    ELSE <<IF e[2] = "n" THEN "\n" ELSE e[2]>> \o scanstring(SubSeq(e, 3, Len(e)))

Str(s) == [kind |-> "str", text |-> "", chars |-> encode_basestring(s)]

RECURSIVE dump_items(_)
dump_items(xs) ==
    IF xs = <<>> THEN <<>>
    ELSE <<Str(Head(xs).chars)>>
         \o (IF Tail(xs) = <<>> THEN <<>> ELSE <<Punct(",")>> \o dump_items(Tail(xs)))

dump_value(v) ==
    IF v.type = "list"
    THEN <<Punct("[")>> \o dump_items(v.items) \o <<Punct("]")>>
    ELSE <<Str(v.chars)>>

RECURSIVE dump_members(_, _)
dump_members(content, keys) ==
    IF keys = <<>> THEN <<>>
    ELSE <<Key(Head(keys)), Punct(":")>> \o dump_value(content[Head(keys)])
         \o (IF Tail(keys) = <<>> THEN <<>>
             ELSE <<Punct(",")>> \o dump_members(content, Tail(keys)))

\* json.dump(content, f, indent=2) of a dict of strings and lists of
\* strings whose keys come in the order `keys`
json_dump(content, keys) ==
    <<Punct("{")>> \o dump_members(content, keys) \o <<Punct("}")>>

\* the items of a list up to its "]": the list and the tokens after it
RECURSIVE load_items(_, _)
load_items(toks, acc) ==
    IF Head(toks) = Punct("]") THEN [value |-> JList(acc), rest |-> Tail(toks)]
    ELSE IF Head(toks) = Punct(",") THEN load_items(Tail(toks), acc)
    ELSE load_items(Tail(toks), Append(acc, JStr(scanstring(Head(toks).chars))))

load_value(toks) ==
    IF Head(toks).kind = "str"
    THEN [value |-> JStr(scanstring(Head(toks).chars)), rest |-> Tail(toks)]
    ELSE load_items(Tail(toks), <<>>)

RECURSIVE load_members(_, _)
load_members(toks, acc) ==
    IF Head(toks) = Punct("}") THEN acc
    ELSE IF Head(toks).kind = "punct" THEN load_members(Tail(toks), acc)
    ELSE LET v == load_value(SubSeq(toks, 3, Len(toks)))
         IN load_members(v.rest, SetItem(acc, Head(toks).text, v.value))

\* json.loads of the text of an object
json_loads(toks) == load_members(toks, NoDict)

IsStr(v) == v.type = "str"

IsStrList(v) == v.type = "list" /\ \A i \in DOMAIN v.items : v.items[i].type = "str"

\* variant: the limits the prompt asks for are enforced as well
SeoElements_limits(parsed_json) ==
    IF /\ {"title", "meta_description", "tags", "keywords"} \subseteq DOMAIN parsed_json
       /\ IsStr(parsed_json["title"]) /\ Len(parsed_json["title"].chars) < 60
       /\ IsStr(parsed_json["meta_description"])
       /\ IsStrList(parsed_json["tags"]) /\ Len(parsed_json["tags"].items) \in 5..10
       /\ IsStrList(parsed_json["keywords"])
    THEN [ok |-> TRUE,
          model_dump |-> [k \in {"title", "meta_description", "tags", "keywords"} |->
                             parsed_json[k]]]
    ELSE [ok |-> FALSE, model_dump |-> NoDict]

\* SeoElements(**parsed_json) and seo.model_dump(): ok is FALSE when the
\* constructor raises
SeoElements(parsed_json) ==
    IF /\ {"title", "meta_description", "tags", "keywords"} \subseteq DOMAIN parsed_json
       /\ IsStr(parsed_json["title"])
       /\ IsStr(parsed_json["meta_description"])
       /\ IsStrList(parsed_json["tags"])
       /\ IsStrList(parsed_json["keywords"])
    THEN [ok |-> TRUE,
          model_dump |-> [k \in {"title", "meta_description", "tags", "keywords"} |->
                             parsed_json[k]]]
    ELSE [ok |-> FALSE, model_dump |-> NoDict]

\* values a field of the parsed answer may have: strings short and long,
\* a number, null, lists empty and long, a list with a number in it
SeoValues ==
    {JStr(<<>>), JStr([i \in 1..161 |-> "a"]), JNum, JNull,
     JList(<<>>), JList([i \in 1..11 |-> JStr(<<"t">>)]),
     JList(<<JStr(<<"t">>), JNum>>)}

\* the objects json.loads may return: any of the four fields may be absent
ParsedObjects ==
    UNION {[present -> SeoValues] :
              present \in SUBSET {"title", "meta_description", "tags", "keywords"}}

\* the model answer whose JSON parses to the object, as the generator
\* sees it
AsText(parsed_json) ==
    Plain(IF SeoElements(parsed_json).ok THEN "record" ELSE "wrongshape")

\* lines 81-91 of generate_seo_elements on an answer that parses
CallSeoElements ==
    /\ Idle
    /\ \E parsed_json \in ParsedObjects :
        Call("SeoElements", parsed_json,
             [seo |-> SeoElements(parsed_json),
              value |-> generate_seo_elements(AsText(parsed_json))])

\* texts with the characters that need an escape
SeoStrings ==
    {<<>>, <<"a">>, <<"\"">>, <<"\\">>, <<"\\", "n">>, <<"\n">>,
     <<"U+00E9", "a">>, <<"\\", "u", "0", "0", "e", "9">>,
     <<"a", "\"", "\\", "\"">>}

SeoLists ==
    {<<>>, <<JStr(<<"b">>), JStr(<<"a">>)>>, <<JStr(<<"a">>), JStr(<<"a">>)>>,
     <<JStr(<<"\\", "n">>), JStr(<<>>), JStr(<<"\"">>)>>}

\* the dicts seo.model_dump() returns
SeoRecords ==
    {[k \in {"title", "meta_description", "tags", "keywords"} |->
         CASE k = "title" -> JStr(t)
           [] k = "meta_description" -> JStr(m)
           [] k = "tags" -> JList(g)
           [] k = "keywords" -> JList(w)] :
        t \in SeoStrings, m \in {<<>>, <<"U+00E9", "\"">>}, g \in SeoLists, w \in SeoLists}

\* save_output(seo_elements, ..., format="json") followed by a read of the
\* file with json.loads
CallSaveSeo ==
    /\ Idle
    /\ \E seo_elements \in SeoRecords :
        Call("save_output", [content |-> seo_elements, format |-> "json"],
             [file |-> json_dump(seo_elements, SeoFields),
              read |-> json_loads(json_dump(seo_elements, SeoFields))])

InitCalls == InitWith("calls")

NextCalls ==
    \/ CallProcessTranscript
    \/ CallMapLanguageCode
    \/ CallLoadTranscript
    \/ CallCandidate
    \/ CallGenerateBlog
    \/ CallSaveSeo
    \/ CallSeoElements
    \/ CallUploadError
    \/ CallChunkTranscript

\* the pipeline, or the functions on their own
InitBoth == Init \/ InitCalls

NextBoth == Next \/ NextCalls

SpecBoth == InitBoth /\ [][NextBoth]_vars

SpecCalls == InitCalls /\ [][NextCalls]_vars

TypeOK ==
    /\ \A j \in JobIds : job_status[j].status \in {"processing", "completed", "failed"}
    /\ DOMAIN task = JobIds

\* ------------------------------------------------------------------------
\* Vocabulary of the properties
\* ------------------------------------------------------------------------
Terminal == {"completed", "failed"}

\* the kinds named in the request of job j
Requested(j) == {task[j].content_types[i] : i \in DOMAIN task[j].content_types}

\* the kinds whose generator takes the blog body
BlogDependent == {"seo", "social", "newsletter"}

\* the service call of step k of job j returned
Answered(j, k) == k \in DOMAIN task[j].result /\ ~task[j].result[k].raised

\* the service call of step k of job j raised
Faulted(j, k) == k \in DOMAIN task[j].result /\ task[j].result[k].raised

\* no service call of job j raised
NoFault(j) == \A k \in DOMAIN task[j].result : ~task[j].result[k].raised

\* the text is accepted by the parser and the validator
Accepted(t) == json_loads_ok(Candidate(t)) /\ validates(Candidate(t))

\* the job id and the kind a file name carries
OwnerOf(name) == name.parts[1]

KindOf(name) == name.parts[Len(name.parts)]

\* the files of the output directory that carry job j's id
FilesOf(dir, j) == {n \in DOMAIN dir : OwnerOf(n) = j}

\* ------------------------------------------------------------------------
\* C1: a job's status only ever changes from processing to completed or to
\* failed; once completed or failed, no step of any upload or pipeline
\* changes it.
\* ------------------------------------------------------------------------
C1_StatusStep ==
    \A j \in JobIds :
        job_status'[j].status # job_status[j].status =>
            /\ job_status[j].status = "processing"
            /\ job_status'[j].status \in Terminal

C1_StatusMonotonic == [][C1_StatusStep]_vars

C1_Witness ==
    \E a, b \in JobIds :
        /\ job_status[a].status = "completed"
        /\ job_status[b].status = "failed"

\* ------------------------------------------------------------------------
\* C2: when blog, seo and faq are requested, the seo answer is not valid
\* JSON, the blog answer and every faq answer are usable and no service
\* call raised, the job ends completed, the blog and faq files are written
\* and recorded, and the seo file is an error artifact holding the
\* malformed text that was parsed (the whole answer when it has no fenced
\* block).
\* ------------------------------------------------------------------------
C2_Case(j) ==
    /\ task[j].pc = "exit"
    /\ NoFault(j)
    /\ "faq" \in Requested(j)
    /\ {"blog", "seo"} \subseteq DOMAIN task[j].result
    /\ Truthy(task[j].result["blog"].text)
    /\ ~json_loads_ok(Candidate(task[j].result["seo"].text))
    /\ "faq" \in DOMAIN task[j].result => Accepted(task[j].result["faq"].text)

C3_GenerationFaultNonFatal ==
    \A j \in JobIds :
        \A k \in Kinds \ {"blog"} :
            Faulted(j, k) => job_status[j].status # "failed"

\* ------------------------------------------------------------------------
\* C4: when blog is requested and blog generation raises, the job does not
\* end failed, and the requested faq and quotes generators still run.
\* ------------------------------------------------------------------------
C4_BlogFailureSkipsDependents ==
    \A j \in JobIds :
        ("blog" \in Requested(j) /\ Faulted(j, "blog")) =>
            /\ job_status[j].status # "failed"
            /\ task[j].pc = "exit" =>
                   \A k \in {"faq", "quotes"} \cap Requested(j) :
                       k \in DOMAIN task[j].result

\* ------------------------------------------------------------------------
\* C5: a job that requests only kinds among seo, social, newsletter never
\* calls a generator and never writes a file of those kinds; when its
\* transcription succeeds it ends completed with a files map that holds the
\* transcript reference and nothing else.
\* ------------------------------------------------------------------------
C5_Case(j) == Requested(j) \subseteq BlogDependent

C5_NoBlogNoDependents ==
    \A j \in JobIds :
        C5_Case(j) =>
            /\ DOMAIN task[j].result \subseteq {"transcript"}
            /\ \A n \in FilesOf(output_dir, j) : KindOf(n) = "transcript"
            /\ (task[j].pc = "exit" /\ Answered(j, "transcript")) =>
                   /\ job_status[j].status = "completed"
                   /\ DOMAIN job_status[j].files = {"transcript"}
                   /\ job_status[j].files["transcript"] \in DOMAIN output_dir

C5_Witness ==
    \E j \in JobIds :
        /\ Requested(j) = BlogDependent
        /\ task[j].pc = "exit"
        /\ Answered(j, "transcript")

\* ------------------------------------------------------------------------
\* C6: when the transcription service raises, the job is failed, its error
\* is the message of that exception, which is not empty, and the job has
\* written no file, transcript included.
\* ------------------------------------------------------------------------
C6_TranscriptionFaultFailsJob ==
    \A j \in JobIds :
        Faulted(j, "transcript") =>
            /\ job_status[j].status = "failed"
            /\ job_status[j].error = task[j].result["transcript"].msg
            /\ job_status[j].error # ""
            /\ "files" \notin job_status[j].keys
            /\ FilesOf(output_dir, j) = {}

C6_Witness == \E j \in JobIds : Faulted(j, "transcript") /\ task[j].pc = "exit"

\* ------------------------------------------------------------------------
\* C7: every persisted file of a structured kind is the rendering of a
\* record that passed validation, or carries an error marker.
\* ------------------------------------------------------------------------
C7_SchemaOrErrorMarker ==
    \A n \in DOMAIN output_dir :
        KindOf(n) \in StructuredKinds =>
            \/ output_dir[n].form = "error"
            \/ output_dir[n].form = "rendered" /\ validates(output_dir[n].text)

\* ------------------------------------------------------------------------
\* C8: when the answer for a structured kind fails parsing or validation,
\* the file of that kind is an error artifact with a message and with the
\* complete answer as the model returned it.
\* ------------------------------------------------------------------------
C8_ErrorArtifactCarriesRaw ==
    \A j \in JobIds :
        \A k \in StructuredKinds :
            (/\ Answered(j, k)
             /\ ~Accepted(task[j].result[k].text)
             /\ k \in DOMAIN task[j].output_files) =>
                LET artifact == output_dir[task[j].output_files[k]]
                IN /\ artifact.form = "error"
                   /\ artifact.error # ""
                   /\ artifact.text = task[j].result[k].text

\* ------------------------------------------------------------------------
\* C9: a record is completed only when the task is past its last block,
\* with every generation it ran and every requested kind it had input for
\* written and recorded in the files map; after that the record and the
\* job's files do not change.
\* ------------------------------------------------------------------------
C9_AllRecorded ==
    \A j \in JobIds :
        job_status[j].status = "completed" =>
            /\ task[j].pc = "exit"
            /\ job_status[j].files = task[j].output_files
            /\ DOMAIN task[j].result \subseteq DOMAIN job_status[j].files
            /\ \A k \in Requested(j) \cap Kinds :
                   (k \in BlogDependent => Truthy(task[j].blog_content)) =>
                       k \in DOMAIN job_status[j].files
            /\ \A k \in DOMAIN job_status[j].files :
                   job_status[j].files[k] \in DOMAIN output_dir

C9_NothingAfter ==
    \A j \in JobIds :
        job_status[j].status = "completed" =>
            /\ job_status'[j] = job_status[j]
            /\ FilesOf(output_dir', j) = FilesOf(output_dir, j)
            /\ \A n \in FilesOf(output_dir, j) : output_dir'[n] = output_dir[n]

C9_CompletedLast == [](C9_AllRecorded) /\ [][C9_NothingAfter]_vars

C9_Witness ==
    \E j \in JobIds :
        /\ job_status[j].status = "completed"
        /\ Requested(j) = Kinds
        /\ DOMAIN job_status[j].files = Kinds \cup {"transcript"}

\* ------------------------------------------------------------------------
\* C10: the references in a job's files map, final or in the making, carry
\* that job's id and occur in no other job's map, and a step of one job's
\* pipeline writes only files that carry its id.
\* ------------------------------------------------------------------------
C10_OwnReferences ==
    \A a \in JobIds :
        /\ \A k \in DOMAIN job_status[a].files : OwnerOf(job_status[a].files[k]) = a
        /\ \A k \in DOMAIN task[a].output_files : OwnerOf(task[a].output_files[k]) = a
        /\ \A b \in JobIds \ {a} :
               \A k \in DOMAIN task[a].output_files :
                   \A l \in DOMAIN task[b].output_files :
                       task[a].output_files[k] # task[b].output_files[l]

C10_OwnWrites ==
    \A a \in JobIds :
        task'[a] # task[a] =>
            \A n \in DOMAIN output_dir' :
                (n \notin DOMAIN output_dir \/ output_dir'[n] # output_dir[n]) =>
                    OwnerOf(n) = a

C10_NoCrossContamination == [](C10_OwnReferences) /\ [][C10_OwnWrites]_vars

C10_Witness ==
    \E a, b \in JobIds :
        /\ a # b
        /\ job_status[a].status = "completed"
        /\ job_status[b].status = "completed"
        /\ task[a].file_path.filename = task[b].file_path.filename
        /\ Cardinality(DOMAIN job_status[a].files) > 2
        /\ Cardinality(DOMAIN job_status[b].files) > 2

\* ------------------------------------------------------------------------
\* C11: a job's record has one writer at a time: it is created by the
\* upload step that also schedules its task, and afterwards it changes only
\* in a step of that job's own task; such a step leaves every other job's
\* record and task alone.
\* ------------------------------------------------------------------------
C11_WriteStep ==
    \A j \in DOMAIN job_status' :
        IF j \notin JobIds
        THEN /\ j \notin DOMAIN task
             /\ task'[j].pc = "start"
             /\ last_reply' = [code |-> 200, job_id |-> j, error |-> ""]
             /\ \A b \in JobIds : job_status'[b] = job_status[b] /\ task'[b] = task[b]
        ELSE job_status'[j] # job_status[j] =>
             /\ task[j].pc # "exit"
             /\ task'[j].pc = "exit"
             /\ last_reply' = last_reply
             /\ \A b \in JobIds \ {j} :
                    job_status'[b] = job_status[b] /\ task'[b] = task[b]

C11_SingleWriter == [][C11_WriteStep]_vars

C11_Witness ==
    \E a \in JobIds : \E b \in JobIds \ {a} :
        /\ job_status[a].status = "failed"
        /\ job_status[b].status = "processing"
        /\ task[b].pc \notin {"start", "exit"}

\* ------------------------------------------------------------------------
\* C12: every job id that upload_audio has returned, and every job id with
\* a scheduled task, is answered by the status lookup with its record and
\* one of the three statuses, never with not-found; the step that
\* schedules a task and returns its id leaves the record 'processing'.
\* (The ids returned so far are the ids of the scheduled tasks.)
\* ------------------------------------------------------------------------
C12_Returned ==
    DOMAIN task \cup (IF last_reply.code = 200 THEN {last_reply.job_id} ELSE {})

C12_Known ==
    \A id \in C12_Returned :
        /\ get_job_status(id).code = 200
        /\ get_job_status(id).body.status \in {"processing", "completed", "failed"}

C12_ScheduleStep ==
    \A id \in DOMAIN task' \ DOMAIN task :
        /\ last_reply'.job_id = id
        /\ id \in DOMAIN job_status'
        /\ job_status'[id].status = "processing"

C12_LookupNeverMissing == [](C12_Known) /\ [][C12_ScheduleStep]_vars

C12_Witness ==
    /\ last_reply.code = 200
    /\ Cardinality(JobIds) = MaxJobs
    /\ task[last_reply.job_id].pc = "start"
    /\ get_job_status(last_reply.job_id).body.status = "processing"
    /\ \E j \in JobIds : get_job_status(j).body.status \in Terminal

\* ------------------------------------------------------------------------
\* C13: cleaning a cleaned transcript changes nothing, and a cleaned
\* transcript holds neither a newline nor a carriage return.
\* ------------------------------------------------------------------------
C13_CleanIdempotent ==
    fn = "process_transcript" =>
        /\ process_transcript(ret) = ret
        /\ \A i \in 1..Len(ret) : ret[i] \notin {"\n", "\r"}

C13_Witness ==
    /\ fn = "process_transcript"
    /\ Len(arg[1]) = MaxLen
    /\ \E i, k \in 1..Len(arg[1]) : arg[1][i] = "\n" /\ arg[1][k] = "\r"
    /\ ret # arg[1]

\* ------------------------------------------------------------------------
\* C14 as stated: the cleaned transcript has the length of the input, with
\* a space at every place of a newline or a carriage return and the input's
\* character at every other place.
\* ------------------------------------------------------------------------
C14_EachReplacedBySpace ==
    fn = "process_transcript" =>
        /\ Len(ret) = Len(arg[1])
        /\ \A i \in 1..Len(arg[1]) :
               ret[i] = IF arg[1][i] \in {"\n", "\r"} THEN " " ELSE arg[1][i]

\* ------------------------------------------------------------------------
\* C14 amended: the cleaned transcript is the input without its carriage
\* returns, with a space at every place of a newline and every other
\* character unchanged and in order; it is shorter than the input by the
\* number of carriage returns.
\* ------------------------------------------------------------------------
C14_NewlineSpacedReturnDropped ==
    fn = "process_transcript" =>
        LET kept == SelectSeq(arg[1], LAMBDA c : c # "\r")
            returns == {i \in 1..Len(arg[1]) : arg[1][i] = "\r"}
        IN /\ Len(ret) = Len(arg[1]) - Cardinality(returns)
           /\ Len(ret) = Len(kept)
           /\ \A i \in 1..Len(kept) :
                  ret[i] = IF kept[i] = "\n" THEN " " ELSE kept[i]

C14_Witness ==
    /\ fn = "process_transcript"
    /\ arg[1] = <<"a", "\r", "\n", "a">>
    /\ ret = <<"a", " ", "a">>

\* ------------------------------------------------------------------------
\* C15: load_transcript given no path, or a path that names no existing
\* file, raises the not-found error and makes no call of the transcription
\* service; a job whose uploaded copy is gone when its task starts ends
\* 'failed' with that message, with no service call and no file written.
\* ------------------------------------------------------------------------
C15_CallNotFound ==
    (fn = "load_transcript"
        /\ (arg.file_path = NoPath \/ arg.file_path \notin arg.files)) =>
        /\ ret.value.raised
        /\ ret.value.msg = "Audio file not found at path"
        /\ ret.create_calls = 0

C15_JobNotFound ==
    \A j \in JobIds :
        (task[j].pc # "start" /\ task[j].file_path \notin temp_dir) =>
            /\ job_status[j].status = "failed"
            /\ job_status[j].error = "Audio file not found at path"
            /\ "transcript" \notin DOMAIN task[j].result
            /\ FilesOf(output_dir, j) = {}
            /\ "files" \notin job_status[j].keys

C15_MissingAudioFails == C15_CallNotFound /\ C15_JobNotFound

C15_Witness ==
    \E j \in JobIds :
        /\ task[j].pc = "exit"
        /\ task[j].file_path \notin temp_dir
        /\ Requested(j) = Kinds
        /\ job_status[j].status = "failed"

\* ------------------------------------------------------------------------
\* C16: map_language_code returns the fixed code of a supported name in
\* whatever letter case it is written, and nothing for any other name;
\* load_transcript given an existing file and a non-empty name of the
\* second sort raises the unsupported-language error and makes no call of
\* the transcription service.
\* ------------------------------------------------------------------------
C16_Codes ==
    {<<english, "en">>, <<french, "fr">>, <<spanish, "es">>,
     <<hindi, "hi">>, <<german, "de">>, <<italian, "it">>}

C16_Supported(language) == \E p \in C16_Codes : language \in CaseVariants(p[1])

C16_Mapping ==
    fn = "map_language_code" =>
        /\ \A p \in C16_Codes : arg[1] \in CaseVariants(p[1]) => ret = p[2]
        /\ ~C16_Supported(arg[1]) => ret = "None"

C16_Unsupported ==
    (fn = "load_transcript" /\ arg.file_path \in arg.files
        /\ arg.language # <<>> /\ ~C16_Supported(arg.language)) =>
        /\ ret.value.raised
        /\ ret.value.msg = "Unsupported language"
        /\ ret.create_calls = 0

C16_LanguageMapping == C16_Mapping /\ C16_Unsupported

C16_Witness ==
    /\ fn = "map_language_code"
    /\ arg[1] = <<"I", "t", "A", "l", "I", "a", "N">>
    /\ ret = "it"

\* ------------------------------------------------------------------------
\* C17 as stated: for every structured kind, when the raw text holds a
\* fenced JSON block the candidate handed to the parser is the content of
\* the block, and otherwise it is the whole raw text.
\* ------------------------------------------------------------------------
C17_FencedJson == arg.raw.fence /\ arg.raw.content \in {"valid", "json"}

C17_FencedBlockFirst ==
    fn = "candidate" =>
        /\ C17_FencedJson => ret = Plain(Seen(arg.kind, arg.raw).body)
        /\ ~arg.raw.fence => ret = Seen(arg.kind, arg.raw)

\* ------------------------------------------------------------------------
\* C17 amended: the candidate is the content of the fenced block when that
\* content opens with the bracket of the kind ("{" for seo and social, "["
\* for faq and quotes), JSON or not; in every other case, a fenced JSON
\* block of the other shape included, it is the whole raw text.
\* ------------------------------------------------------------------------
C17_FencedBracketFirst ==
    fn = "candidate" =>
        IF arg.raw.fence /\ arg.raw.open = (IF arg.kind \in {"seo", "social"} THEN "{" ELSE "[")
        THEN ret = Plain(Seen(arg.kind, arg.raw).body)
        ELSE ret = Seen(arg.kind, arg.raw)

C17_Witness ==
    /\ fn = "candidate"
    /\ arg.kind = "faq"
    /\ arg.raw = [fence |-> TRUE, open |-> "{", content |-> "json"]
    /\ ret = Fenced("otherjson")

\* ------------------------------------------------------------------------
\* C18 as stated: generate_blog given a transcript longer than max_length,
\* with the model answering every call, asks for one summary per chunk of
\* max_length characters and returns the blog body the agent writes.
\* ------------------------------------------------------------------------
C18_LongTranscriptSummarized ==
    (fn = "generate_blog"
        /\ Len(arg.transcript) > arg.max_length
        /\ ~arg.summary.raised /\ ~arg.output.raised) =>
        /\ ret.calls = Len(chunks(arg.transcript, arg.max_length))
        /\ ret.value = TextOut(arg.output.text)

\* ------------------------------------------------------------------------
\* C19 as stated: every file a job writes is named by the job id, the name
\* of the uploaded file without its extension and the kind, in that order
\* and nothing else, with the extension json for seo and md for the rest.
\* ------------------------------------------------------------------------
C19_NamingConvention ==
    \A j \in JobIds :
        \A name \in FilesOf(output_dir, j) :
            /\ name.parts = <<j, task[j].file_path.filename.stem, KindOf(name)>>
            /\ KindOf(name) \in Kinds \cup {"transcript"}
            /\ name.ext = (IF KindOf(name) = "seo" THEN "json" ELSE "md")

\* ------------------------------------------------------------------------
\* C20: a job whose pipeline was left by an exception has the record
\* 'failed' with the message of that exception as its error and without a
\* files map, whatever the job wrote before the failing step.
\* ------------------------------------------------------------------------
C20_FailedRecordOnly ==
    \A j \in JobIds :
        /\ task[j].exc # NoExc =>
               /\ job_status[j].status = "failed"
               /\ job_status[j].error = task[j].exc.msg
               /\ job_status[j].keys = {"status", "error"}
               /\ job_status[j].files = NoFiles
        /\ \A k \in DOMAIN task[j].result :
               Faulted(j, k) =>
                   /\ task[j].exc.at = k
                   /\ job_status[j].status = "failed"
                   /\ job_status[j].error = task[j].result[k].msg

C20_Witness ==
    \E j \in JobIds :
        /\ Faulted(j, "quotes")
        /\ job_status[j].status = "failed"
        /\ Cardinality(FilesOf(output_dir, j)) = 6

\* ------------------------------------------------------------------------
\* C21: within a job the generator of each of seo, faq, social, newsletter
\* and quotes calls the model once, whatever the answer: a step that runs a
\* generator adds one call, a kind with an answer on record has exactly one
\* call, and no later step adds a call for it.
\* ------------------------------------------------------------------------
C21_Kinds == {"seo", "faq", "social", "newsletter", "quotes"}

C21_OneCall ==
    \A j \in JobIds : \A k \in C21_Kinds :
        /\ task[j].invocations[k] \in {0, 1}
        /\ task[j].invocations[k] = 1 <=> k \in DOMAIN task[j].result

C21_CallStep ==
    \A j \in JobIds : \A k \in C21_Kinds :
        task'[j].invocations[k] # task[j].invocations[k] =>
            /\ task[j].pc = k
            /\ task'[j].pc # k
            /\ task'[j].invocations[k] = task[j].invocations[k] + 1

C21_NoRetry == [](C21_OneCall) /\ [][C21_CallStep]_vars

C21_Witness ==
    \E j \in JobIds :
        /\ task[j].pc = "exit"
        /\ job_status[j].status = "completed"
        /\ Answered(j, "seo") /\ ~Accepted(task[j].result["seo"].text)
        /\ Answered(j, "faq") /\ ~Accepted(task[j].result["faq"].text)
        /\ Answered(j, "quotes") /\ Accepted(task[j].result["quotes"].text)
        /\ \A k \in {"seo", "faq", "quotes"} : task[j].invocations[k] = 1

\* ------------------------------------------------------------------------
\* C22: with every scheduled task run and every external call returning or
\* raising, a job whose record is 'processing' has a record 'completed' or
\* 'failed' later on.
\* ------------------------------------------------------------------------
C22_EventuallyTerminal ==
    \A j \in 1..MaxJobs :
        (j \in JobIds /\ job_status[j].status = "processing")
            ~> (j \in JobIds /\ job_status[j].status \in Terminal)

C22_Witness ==
    /\ Cardinality(JobIds) = MaxJobs
    /\ \A j \in JobIds : task[j].pc = "exit"
    /\ \E j \in JobIds : job_status[j].status = "completed"
    /\ \E j \in JobIds : job_status[j].status = "failed"

\* ------------------------------------------------------------------------
\* C23: a validated seo record written by save_output in json format and
\* read back as JSON gives an object with the same four fields: the title
\* and the description character for character, the tags and the keywords
\* item for item in the same order.
\* ------------------------------------------------------------------------
C23_SeoRoundTrip ==
    fn = "save_output" =>
        /\ DOMAIN ret.read = {"title", "meta_description", "tags", "keywords"}
        /\ ret.read["title"].type = "str"
        /\ ret.read["title"].chars = arg.content["title"].chars
        /\ ret.read["meta_description"].chars = arg.content["meta_description"].chars
        /\ \A f \in {"tags", "keywords"} :
               /\ ret.read[f].type = "list"
               /\ Len(ret.read[f].items) = Len(arg.content[f].items)
               /\ \A i \in 1..Len(arg.content[f].items) :
                      ret.read[f].items[i].chars = arg.content[f].items[i].chars

C23_Witness ==
    /\ fn = "save_output"
    /\ arg.content["title"].chars = <<"\\", "n">>
    /\ Len(arg.content["tags"].items) = 3
    /\ arg.content["keywords"].items = <<JStr(<<"b">>), JStr(<<"a">>)>>
    /\ \E i \in 1..Len(ret.file) : ret.file[i].chars = <<"\\", "\\", "n">>

\* ------------------------------------------------------------------------
\* C24: within a job the seo, social and newsletter generators are called
\* only when the blog generation has returned, and the text each of them
\* is handed is the content of the job's blog file.
\* ------------------------------------------------------------------------
C24_AfterBlog ==
    \A j \in JobIds : \A k \in BlogDependent :
        task[j].invocations[k] > 0 =>
            /\ Answered(j, "blog")
            /\ "blog" \in DOMAIN task[j].output_files
            /\ task[j].output_files["blog"] \in DOMAIN output_dir

C24_SameText ==
    \A j \in JobIds : \A k \in BlogDependent \cap DOMAIN task[j].given :
        /\ task[j].given[k] = output_dir[task[j].output_files["blog"]]
        /\ task[j].given[k].text = task[j].result["blog"].text

C24_SeesFinalBlog == C24_AfterBlog /\ C24_SameText

C24_Witness ==
    \E j \in JobIds :
        /\ BlogDependent \subseteq DOMAIN task[j].given
        /\ task[j].given["seo"].text = Plain("prose")
        /\ job_status[j].status = "completed"

\* ------------------------------------------------------------------------
\* C25: the seo validator accepts a parsed object exactly when title and
\* meta_description are present and strings and tags and keywords are
\* present and lists of strings, of whatever length, the empty list
\* included; an accepted object gives the record of its four fields, any
\* other object gives an error artifact.
\* ------------------------------------------------------------------------
C25_WellTyped(parsed) ==
    /\ \A f \in {"title", "meta_description"} :
           f \in DOMAIN parsed /\ parsed[f].type = "str"
    /\ \A f \in {"tags", "keywords"} :
           /\ f \in DOMAIN parsed
           /\ parsed[f].type = "list"
           /\ \A i \in 1..Len(parsed[f].items) : parsed[f].items[i].type = "str"

C25_PresenceAndTypeOnly ==
    fn = "SeoElements" =>
        IF C25_WellTyped(arg)
        THEN /\ ret.seo.ok
             /\ ret.seo.model_dump = arg
             /\ ret.value.form = "rendered"
        ELSE /\ ~ret.seo.ok
             /\ ret.value.form = "error"
             /\ ret.value.error # ""

C25_Witness ==
    /\ fn = "SeoElements"
    /\ ret.seo.ok
    /\ Len(arg["title"].chars) = 161
    /\ Len(arg["meta_description"].chars) = 161
    /\ arg["tags"].items = <<>>
    /\ Len(arg["keywords"].items) = 11

\* ------------------------------------------------------------------------
\* C26: an upload larger than 20 MiB, or whose name does not end in .mp3,
\* .wav, .m4a or .ogg in some letter case, gets an error response and
\* every other upload passes the guards, one of exactly 20 MiB included;
\* the step that answers 400 creates no job record, schedules no task and
\* writes no file.
\* ------------------------------------------------------------------------
C26_Oversized(size) == size > 20 * 1024 * 1024

C26_AudioName(filename) ==
    \E e \in {<<"m", "p", "3">>, <<"w", "a", "v">>, <<"m", "4", "a">>, <<"o", "g", "g">>} :
        /\ Len(filename.ext) = Len(e)
        /\ \A i \in 1..Len(e) : filename.ext[i] \in {e[i], upper_char(e[i])}

C26_Guards ==
    fn = "upload_error" =>
        /\ ret = "" <=> ~C26_Oversized(arg.size) /\ C26_AudioName(arg.filename)
        /\ C26_Oversized(arg.size) => ret = "File size exceeds the 20MB limit"

C26_RejectStep ==
    (last_reply' # last_reply /\ last_reply'.code = 400) =>
        /\ last_reply'.error # ""
        /\ job_status' = job_status
        /\ task' = task
        /\ temp_dir' = temp_dir
        /\ output_dir' = output_dir

C26_GuardsRejectCleanly == [](C26_Guards) /\ [][C26_RejectStep]_vars

C26_Witness ==
    /\ last_reply.code = 400
    /\ last_reply.error = "File size exceeds the 20MB limit"
    /\ JobIds = {}
    /\ DOMAIN task = {}
    /\ temp_dir = {}

\* ------------------------------------------------------------------------
\* C27: what a status read returns for a job is always one of three
\* shapes: 'processing' with the file name and neither files nor error;
\* 'completed' with a files map that holds the transcript and exactly the
\* files the job wrote, and no error, the task having ended; 'failed' with
\* an error and no files map. A completed record and the files behind it
\* do not change afterwards.
\* ------------------------------------------------------------------------
C27_Processing(r) ==
    /\ r.status = "processing"
    /\ r.keys = {"status", "filename"}
    /\ r.files = NoFiles
    /\ r.error = ""

C27_Completed(j, r) ==
    /\ r.status = "completed"
    /\ r.keys = {"status", "files"}
    /\ r.error = ""
    /\ "transcript" \in DOMAIN r.files
    /\ {r.files[k] : k \in DOMAIN r.files} = FilesOf(output_dir, j)
    /\ Cardinality(DOMAIN r.files) = Cardinality(FilesOf(output_dir, j))
    /\ task[j].pc = "exit"

C27_Failed(r) ==
    /\ r.status = "failed"
    /\ r.keys = {"status", "error"}
    /\ r.files = NoFiles

C27_Shapes ==
    \A j \in JobIds :
        LET read == get_job_status(j) IN
        /\ read.code = 200
        /\ \/ C27_Processing(read.body)
           \/ C27_Completed(j, read.body)
           \/ C27_Failed(read.body)

C27_CompletedStep ==
    \A j \in JobIds :
        job_status[j].status = "completed" =>
            /\ job_status'[j] = job_status[j]
            /\ FilesOf(output_dir', j) = FilesOf(output_dir, j)

C27_AtomicVisibility == [](C27_Shapes) /\ [][C27_CompletedStep]_vars

C27_Witness ==
    \E j \in JobIds :
        /\ get_job_status(j).body.status = "completed"
        /\ DOMAIN get_job_status(j).body.files = Kinds \cup {"transcript"}
        /\ Cardinality(FilesOf(output_dir, j)) = 7

\* ------------------------------------------------------------------------
\* C28: for the request and the service outcomes of a finished job, the
\* command line program invokes the generators the job invoked, in the
\* same order, and saves the kinds the job saved.
\* ------------------------------------------------------------------------
C28_Raised(j) == IF task[j].exc = NoExc THEN {} ELSE {task[j].exc.at}

C28_Invoked(j) == SelectSeq(KindOrder, LAMBDA k : task[j].invocations[k] > 0)

C28_Saved(j) == DOMAIN task[j].output_files

C28_SameGenerators ==
    \A j \in JobIds :
        task[j].pc = "exit" =>
            LET cli == main(task[j].content_types, C28_Raised(j)) IN
            /\ cli.invoked = C28_Invoked(j)
            /\ cli.saved = C28_Saved(j)

\* the two agree on every job whose blog, when asked for, has a body
C28_SameUnlessEmptyBlog ==
    \A j \in JobIds :
        (task[j].pc = "exit" /\ task[j].blog_content # Plain("empty")) =>
            LET cli == main(task[j].content_types, C28_Raised(j)) IN
            /\ cli.invoked = C28_Invoked(j)
            /\ cli.saved = C28_Saved(j)

\* ------------------------------------------------------------------------
\* C29: the chunks of a transcript longer than max_length, joined in
\* order, are the transcript; none is empty or longer than max_length,
\* all but the last have exactly max_length characters, and there are
\* ceil(len/max_length) of them; generate_blog builds no chunk and asks
\* for no summary for a transcript of max_length characters or fewer, and
\* chunk_transcript leaves such a transcript whole.
\* ------------------------------------------------------------------------
RECURSIVE C29_Join(_)
C29_Join(cs) == IF cs = <<>> THEN <<>> ELSE Head(cs) \o C29_Join(Tail(cs))

C29_Partition(cs, transcript, n) ==
    /\ C29_Join(cs) = transcript
    /\ \A i \in 1..Len(cs) : Len(cs[i]) \in 1..n
    /\ \A i \in 1..(Len(cs) - 1) : Len(cs[i]) = n
    /\ (Len(cs) - 1) * n < Len(transcript)
    /\ Len(transcript) <= Len(cs) * n

C29_ChunksPartition ==
    /\ fn \in {"generate_blog", "chunk_transcript"} =>
           IF Len(arg.transcript) > arg.max_length
           THEN /\ C29_Partition(ret.chunks, arg.transcript, arg.max_length)
                /\ Len(ret.chunks) > 1
           ELSE Len(ret.chunks) <= 1
    /\ (fn = "generate_blog" /\ Len(arg.transcript) <= arg.max_length) =>
           ret.chunks = <<>> /\ ret.calls = 0
    /\ (fn = "chunk_transcript" /\ Len(arg.transcript) <= arg.max_length) =>
           ret.transcript = arg.transcript

C29_Witness ==
    /\ fn = "generate_blog"
    /\ arg.max_length = 3
    /\ Len(arg.transcript) = 4
    /\ Len(ret.chunks) = 2
    /\ Len(ret.chunks[2]) = 1

\* ------------------------------------------------------------------------
\* C30: what a job generates is settled by the set of recognised kinds in
\* its request: a generator runs only for a kind that is in the request,
\* at most once however often the kind is named, and after every
\* generator it follows in the order blog, seo, faq, social, newsletter,
\* quotes wherever the kind stands in the request; a completed job has
\* the files of the transcript and of the requested recognised kinds
\* (those that take the blog body only when there is one), and a kind
\* outside the six adds no file and fails no job.
\* ------------------------------------------------------------------------
C30_Position(k) == CHOOSE i \in 1..6 : <<"blog", "seo", "faq", "social", "newsletter", "quotes">>[i] = k

C30_Due(j, k) ==
    /\ k \in Requested(j)
    /\ k \in {"seo", "social", "newsletter"} => Truthy(task[j].blog_content)

C30_Generated ==
    \A j \in JobIds :
        /\ \A k \in Kinds :
               /\ task[j].invocations[k] <= 1
               /\ task[j].invocations[k] = 1 => k \in Requested(j)
        /\ DOMAIN task[j].output_files \subseteq Kinds \cup {"transcript"}
        /\ job_status[j].status = "completed" =>
               DOMAIN job_status[j].files =
                   {"transcript"} \cup {k \in Kinds : C30_Due(j, k)}
        /\ job_status[j].status = "failed" =>
               task[j].exc.at \in Kinds \cup {"transcript"}

C30_OrderStep ==
    \A j \in JobIds, k \in Kinds :
        task'[j].invocations[k] > task[j].invocations[k] =>
            \A l \in Kinds :
                /\ C30_Position(l) >= C30_Position(k) =>
                       /\ task[j].invocations[l] = 0
                       /\ l \notin DOMAIN task[j].output_files
                /\ (C30_Position(l) < C30_Position(k) /\ C30_Due(j, l)) =>
                       task[j].invocations[l] = 1

C30_RequestIsASet == [](C30_Generated) /\ [][C30_OrderStep]_vars

C30_Witness ==
    \E j \in JobIds :
        /\ task[j].content_types = <<"quotes", "video", "blog", "quotes", "seo">>
        /\ job_status[j].status = "completed"
        /\ DOMAIN job_status[j].files = {"transcript", "blog", "seo", "quotes"}
        /\ \A k \in {"blog", "seo", "quotes"} : task[j].invocations[k] = 1
====
